---- MODULE Spec2Model ----
(***************************************************************************)
(* Model of eessi/testsuite/hooks.py: the ReFrame hooks that derive a      *)
(* test's job resources (assign_one_task_per_compute_unit and its three    *)
(* per-compute-unit helpers), filter valid_systems by device type and      *)
(* normalise executable_opts.                                              *)
(*                                                                         *)
(* Python values are modelled as follows.  An attribute that holds None or *)
(* an int is a sequence: <<>> is None and <<n>> is the int n.  A raised    *)
(* exception is recorded in the test's exc field with the line raising it; *)
(* the attributes assigned before the raise keep their new values, as they *)
(* do on the Python object, and no later statement runs.                   *)
(***************************************************************************)
EXTENDS Integers, Sequences, FiniteSets, TLC

\* ------------------------------------------------------------- bounds
\* Largest processor.num_cpus of a partition.
MaxCpus == 8
\* Largest number of GPUs per node of a partition.
MaxGpus == 4
\* Largest node_part of a scale.
MaxNodePart == 2
\* Largest num_nodes of a scale.
MaxNodes == 2
\* Longest executable_opts list, and longest option in it, in characters.
MaxOpts == 2
MaxOptLen == 3
\* Largest num_default a test passes to check_custom_executable_opts.
MaxNumDefault == 2

\* ------------------------------------------------------ Python values
None == <<>>
Some(n) == <<n>>
Val(x) == x[1]
\* type(x) == int
IsInt(x) == x # None
\* bool(x) of None or an int: the test of "if x" and "not x"
Truthy(x) == x # None /\ Val(x) # 0

Abs(n) == IF n < 0 THEN -n ELSE n
Min(a, b) == IF a <= b THEN a ELSE b
\* int(a / b) of two ints, b # 0: the quotient truncated towards zero
IntDiv(a, b) ==
    LET q == Abs(a) \div Abs(b)
    IN  IF (a < 0) # (b < 0) THEN -q ELSE q
\* math.ceil(a / b) of two ints, b # 0
CeilDiv(a, b) ==
    LET q == Abs(a) \div Abs(b)
        exact == q * Abs(b) = Abs(a)
    IN  IF (a < 0) # (b < 0) THEN -q
        ELSE IF exact THEN q ELSE q + 1

\* ---------------------------------------------------------- constants
\* DEVICES of eessi.testsuite.constants, as hooks.py names its members,
\* and one compute unit that is none of them.
DEVICES == [CPU |-> "cpu", CPU_SOCKET |-> "cpu_socket", GPU |-> "gpu"]
ComputeUnits == {DEVICES.CPU, DEVICES.CPU_SOCKET, DEVICES.GPU, "node"}
\* FEATURES of eessi.testsuite.constants
FEATURES == [CPU |-> "cpu", GPU |-> "gpu"]

VARIABLES
    test,               \* the resource attributes of the rfm.RegressionTest
    current_partition,  \* test.current_partition: processor info and devices
    compute_unit,       \* the compute_unit the hook was called with ("" before)
    user,               \* the resource attributes as the user left them
                        \* (--setvar) before the hook ran: history only
    valid_systems,      \* test.valid_systems, a list of strings
    modules,            \* test.modules, a list of module names
    module_name,        \* test.module_name
    required_device_type, \* the argument of the last device-type filter
    executable_opts,    \* test.executable_opts, a list of strings
    has_custom_executable_opts, \* None until the hook sets it
    num_default,        \* the num_default the test passes to the hook
    opts_exc,           \* how the executable_opts hook ended ("" before)
    last_hook           \* the hook that ran last and how it ended

resource_vars == <<test, current_partition, compute_unit, user>>
filter_vars == <<valid_systems, modules, module_name, required_device_type>>
opts_vars == <<executable_opts, has_custom_executable_opts, num_default, opts_exc>>
vars == <<resource_vars, filter_vars, opts_vars, last_hook>>

\* ----------------------------------------------------- control flow
Pending(t) == t.exc = "pending"
Raise(t, e, l) == [t EXCEPT !.exc = e, !.line = l]
\* test.skip_if(cond, msg): raises SkipTestError when cond holds
skip_if(t, cond, l) == IF cond THEN Raise(t, "SkipTestError", l) ELSE t
\* t.<field> = int(a / b), with Python's errors for None and for b = 0
DivInto(t, field, a, b, l) ==
    IF a = None \/ b = None THEN Raise(t, "TypeError", l)
    ELSE IF Val(b) = 0 THEN Raise(t, "ZeroDivisionError", l)
    ELSE [t EXCEPT ![field] = Some(IntDiv(Val(a), Val(b)))]
\* faulty variant: the number of nodes is left out of the product
SetNumTasks_PerNodeOnly(t, l) ==
    IF t.num_nodes = None \/ t.num_tasks_per_node = None
    THEN Raise(t, "TypeError", l)
    ELSE [t EXCEPT !.num_tasks = t.num_tasks_per_node]
\* test.num_tasks = test.num_nodes * test.num_tasks_per_node
SetNumTasks(t, l) ==
    IF t.num_nodes = None \/ t.num_tasks_per_node = None
    THEN Raise(t, "TypeError", l)
    ELSE [t EXCEPT !.num_tasks = Some(Val(t.num_nodes) * Val(t.num_tasks_per_node))]

\* ------------------------------------------------------------ helpers
\* get_max_avail_gpus_per_node of eessi.testsuite.utils: the number of GPUs
\* per node the current partition offers (an int >= 0)
get_max_avail_gpus_per_node(part) == part.max_avail_gpus_per_node

\* lines 45-58: keep a default_num_cpus_per_node that is set (skipping the
\* test when it exceeds the partition's), else derive it from node_part
SetDefaultCpus(t) ==
    IF Truthy(t.default_num_cpus_per_node)
    THEN skip_if(t, Val(t.default_num_cpus_per_node) > Val(t.max_avail_cpus_per_node), 51)
    ELSE DivInto(t, "default_num_cpus_per_node", t.max_avail_cpus_per_node, t.node_part, 58)

assign_one_task_per_cpu_socket(t, part) ==
    LET t1 == IF ~Truthy(t.num_tasks_per_node) /\ ~Truthy(t.num_cpus_per_task)
              THEN IF Truthy(part.num_sockets)
                   THEN DivInto([t EXCEPT !.num_tasks_per_node = part.num_sockets],
                                "num_cpus_per_task",
                                t.default_num_cpus_per_node, part.num_sockets, 91)
                   ELSE t
              ELSE IF ~Truthy(t.num_tasks_per_node)
              THEN DivInto(t, "num_tasks_per_node",
                           t.default_num_cpus_per_node, t.num_cpus_per_task, 95)
              ELSE IF ~Truthy(t.num_cpus_per_task)
              THEN DivInto(t, "num_cpus_per_task",
                           t.default_num_cpus_per_node, t.num_tasks_per_node, 99)
              ELSE t
    IN  IF Pending(t1) THEN SetNumTasks(t1, 104) ELSE t1

assign_one_task_per_cpu(t) ==
    LET t1 == IF ~Truthy(t.num_tasks_per_node) /\ ~Truthy(t.num_cpus_per_task)
              THEN [t EXCEPT !.num_tasks_per_node = t.default_num_cpus_per_node,
                             !.num_cpus_per_task = Some(1)]
              ELSE IF ~Truthy(t.num_tasks_per_node)
              THEN DivInto(t, "num_tasks_per_node",
                           t.default_num_cpus_per_node, t.num_cpus_per_task, 129)
              ELSE IF ~Truthy(t.num_cpus_per_task)
              THEN DivInto(t, "num_cpus_per_task",
                           t.default_num_cpus_per_node, t.num_tasks_per_node, 133)
              ELSE t
    IN  IF Pending(t1) THEN SetNumTasks(t1, 138) ELSE t1

\* faulty variant: a default that is set is kept without comparing it with the
\* partition's GPUs
SetDefaultGpus_Unchecked(t, max_avail_gpus_per_node) ==
    IF Truthy(t.default_num_gpus_per_node) THEN t
    ELSE IF t.node_part = None THEN Raise(t, "TypeError", 180)
    ELSE IF Val(t.node_part) = 0 THEN Raise(t, "ZeroDivisionError", 180)
    ELSE [t EXCEPT !.default_num_gpus_per_node =
                       Some(CeilDiv(max_avail_gpus_per_node, Val(t.node_part)))]
\* lines 171-180: keep a default_num_gpus_per_node that is set (skipping the
\* test when it exceeds the partition's), else derive it from node_part
SetDefaultGpus(t, max_avail_gpus_per_node) ==
    IF Truthy(t.default_num_gpus_per_node)
    THEN skip_if(t, Val(t.default_num_gpus_per_node) > max_avail_gpus_per_node, 173)
    ELSE IF t.node_part = None THEN Raise(t, "TypeError", 180)
    ELSE IF Val(t.node_part) = 0 THEN Raise(t, "ZeroDivisionError", 180)
    ELSE [t EXCEPT !.default_num_gpus_per_node =
                       Some(CeilDiv(max_avail_gpus_per_node, Val(t.node_part)))]

\* faulty variant: the defaults are assigned whatever the user set
SetTasksAndGpus_IgnoreUser(t) ==
    [t EXCEPT !.num_gpus_per_node = t.default_num_gpus_per_node,
              !.num_tasks_per_node = t.default_num_gpus_per_node]
\* faulty variant: num_gpus_per_node follows num_tasks_per_node without the limit of
\* default_num_gpus_per_node
SetTasksAndGpus_Unlimited(t) ==
    IF ~Truthy(t.num_tasks_per_node) /\ ~Truthy(t.num_gpus_per_node)
    THEN [t EXCEPT !.num_gpus_per_node = t.default_num_gpus_per_node,
                   !.num_tasks_per_node = t.default_num_gpus_per_node]
    ELSE IF ~Truthy(t.num_tasks_per_node)
    THEN [t EXCEPT !.num_tasks_per_node = t.num_gpus_per_node]
    ELSE IF ~Truthy(t.num_gpus_per_node)
    THEN [t EXCEPT !.num_gpus_per_node = t.num_tasks_per_node]
    ELSE t
\* faulty variant: with only num_tasks_per_node set, num_gpus_per_node takes
\* the default whatever the number of tasks
SetTasksAndGpus_DefaultOnly(t) ==
    IF ~Truthy(t.num_tasks_per_node) /\ ~Truthy(t.num_gpus_per_node)
    THEN [t EXCEPT !.num_gpus_per_node = t.default_num_gpus_per_node,
                   !.num_tasks_per_node = t.default_num_gpus_per_node]
    ELSE IF ~Truthy(t.num_tasks_per_node)
    THEN [t EXCEPT !.num_tasks_per_node = t.num_gpus_per_node]
    ELSE IF ~Truthy(t.num_gpus_per_node)
    THEN [t EXCEPT !.num_gpus_per_node = t.default_num_gpus_per_node]
    ELSE t
\* lines 182-196: one task per GPU, unless the user set either
SetTasksAndGpus(t) ==
    IF ~Truthy(t.num_tasks_per_node) /\ ~Truthy(t.num_gpus_per_node)
    THEN [t EXCEPT !.num_gpus_per_node = t.default_num_gpus_per_node,
                   !.num_tasks_per_node = t.default_num_gpus_per_node]
    ELSE IF ~Truthy(t.num_tasks_per_node)
    THEN [t EXCEPT !.num_tasks_per_node = t.num_gpus_per_node]
    ELSE IF ~Truthy(t.num_gpus_per_node)
    THEN [t EXCEPT !.num_gpus_per_node =
                       Some(Min(Val(t.num_tasks_per_node), Val(t.default_num_gpus_per_node)))]
    ELSE t

\* faulty variant: num_cpus_per_task is the default share, without the limit of the
\* cpus available per gpu
SetCpusPerTask_Uncapped(t, max_avail_gpus_per_node) ==
    IF Truthy(t.num_cpus_per_task) THEN t
    ELSE DivInto(t, "num_cpus_per_task",
                 t.default_num_cpus_per_node, t.num_tasks_per_node, 202)
\* lines 198-204: num_cpus_per_task, limited to the cpus available per gpu.
\* Both arguments of min() are evaluated, the first one first.
SetCpusPerTask(t, max_avail_gpus_per_node) ==
    IF Truthy(t.num_cpus_per_task) THEN t
    ELSE LET a == DivInto(t, "num_cpus_per_task",
                          t.default_num_cpus_per_node, t.num_tasks_per_node, 202)
             b == DivInto(t, "num_cpus_per_task",
                          t.max_avail_cpus_per_node, Some(max_avail_gpus_per_node), 203)
         IN  IF ~Pending(a) THEN a
             ELSE IF ~Pending(b) THEN b
             ELSE [t EXCEPT !.num_cpus_per_task =
                                Some(Min(Val(a.num_cpus_per_task), Val(b.num_cpus_per_task)))]

assign_one_task_per_gpu(t, part) ==
    LET max_avail_gpus_per_node == get_max_avail_gpus_per_node(part)
        t1 == SetDefaultGpus(t, max_avail_gpus_per_node)
        t2 == IF Pending(t1) THEN SetTasksAndGpus(t1) ELSE t1
        t3 == IF Pending(t2) THEN SetCpusPerTask(t2, max_avail_gpus_per_node) ELSE t2
    IN  IF Pending(t3) THEN SetNumTasks(t3, 206) ELSE t3

\* lines 62-69
Dispatch(t, part, cu) ==
    IF cu = DEVICES.GPU THEN assign_one_task_per_gpu(t, part)
    ELSE IF cu = DEVICES.CPU THEN assign_one_task_per_cpu(t)
    ELSE IF cu = DEVICES.CPU_SOCKET THEN assign_one_task_per_cpu_socket(t, part)
    ELSE Raise(t, "ValueError", 69)

\* the test object after assign_one_task_per_compute_unit(test, cu): exc is
\* "returned" when the hook returned, else the exception it raised
AssignResult(t, part, cu) ==
    LET t1 == [t EXCEPT !.max_avail_cpus_per_node = part.num_cpus]
        t2 == IF t1.max_avail_cpus_per_node = None
              THEN Raise(t1, "AttributeError", 33)
              ELSE IF ~(IsInt(t1.node_part)
                        \/ (IsInt(t1.default_num_cpus_per_node)
                            /\ IsInt(t1.default_num_gpus_per_node)))
              THEN Raise(t1, "ValueError", 40)
              ELSE t1
        t3 == IF Pending(t2) THEN SetDefaultCpus(t2) ELSE t2
        t4 == IF Pending(t3) THEN Dispatch(t3, part, cu) ELSE t3
    IN  IF Pending(t4) THEN [t4 EXCEPT !.exc = "returned"] ELSE t4


\* --------------------------------------------------- device-type filter
\* is_cuda_required_module of eessi.testsuite.utils: whether the module
\* needs a GPU (it is built with CUDA)
CudaModules == {"GROMACS/2021.3-foss-2021a-CUDA-11.3.1", "TensorFlow/2.6.0-foss-2021a-CUDA-11.3.1"}
is_cuda_required_module(name) == name \in CudaModules
ModuleNames == CudaModules \cup {"GROMACS/2021.3-foss-2021a", "TensorFlow/2.6.0-foss-2021a"}

\* faulty variant: a GPU request selects the gpu feature whatever the module
FilteredSystems_GpuAlways(systems, name, device_type) ==
    IF systems # <<>> THEN systems
    ELSE IF device_type = DEVICES.GPU THEN <<"+" \o FEATURES.GPU>>
    ELSE IF device_type = DEVICES.CPU THEN <<"+" \o FEATURES.CPU>>
    ELSE systems
\* test.valid_systems after filter_valid_systems_by_device_type
FilteredSystems(systems, name, device_type) ==
    IF systems # <<>> THEN systems
    ELSE LET is_cuda_module == is_cuda_required_module(name)
             selected ==
                 IF is_cuda_module /\ device_type = DEVICES.GPU
                 THEN "+" \o FEATURES.GPU
                 ELSE IF device_type = DEVICES.CPU
                 THEN "+" \o FEATURES.CPU
                 ELSE ""
         IN  IF selected # "" THEN <<selected>> ELSE systems

IsIn(x, list) == \E i \in 1 .. Len(list) : list[i] = x

\* ------------------------------------------------------ executable_opts
\* A string is a sequence of characters; shlex treats these specially.
\* (of shlex's whitespace only the blank occurs in the options modelled)
Whitespace == {" "}
Quotes == {"'", "\""}
Escape == "\\"

\* ' '.join(opts)
RECURSIVE JoinWithSpaces(_)
JoinWithSpaces(opts) ==
    IF opts = <<>> THEN <<>>
    ELSE IF Len(opts) = 1 THEN opts[1]
    ELSE opts[1] \o <<" ">> \o JoinWithSpaces(Tail(opts))

\* shlex in POSIX mode with whitespace_split and no comments, reading s from
\* its i-th character.  state is shlex's state (" ": between tokens, "a": in
\* a word, a quote character: in that quotation, the escape character: after
\* an escape), esc its escapedstate, tok the token so far, out the tokens
\* read.  ok is FALSE for its ValueError (no closing quotation, or no escaped
\* character).
RECURSIVE ReadTokens(_, _, _, _, _, _)
ReadTokens(s, i, state, esc, tok, out) ==
    IF i > Len(s)
    THEN IF state \in Quotes \/ state = Escape THEN [ok |-> FALSE, toks |-> out]
         ELSE IF state = "a" THEN [ok |-> TRUE, toks |-> Append(out, tok)]
         ELSE [ok |-> TRUE, toks |-> out]
    ELSE LET c == s[i]
         IN  IF state = " "
             THEN IF c \in Whitespace THEN ReadTokens(s, i + 1, " ", esc, tok, out)
                  ELSE IF c = Escape THEN ReadTokens(s, i + 1, Escape, "a", tok, out)
                  ELSE IF c \in Quotes THEN ReadTokens(s, i + 1, c, esc, tok, out)
                  ELSE ReadTokens(s, i + 1, "a", esc, <<c>>, out)
             ELSE IF state \in Quotes
             THEN IF c = state THEN ReadTokens(s, i + 1, "a", esc, tok, out)
                  ELSE IF c = Escape /\ state = "\""
                  THEN ReadTokens(s, i + 1, Escape, state, tok, out)
                  ELSE ReadTokens(s, i + 1, state, esc, Append(tok, c), out)
             ELSE IF state = Escape
             THEN LET kept == IF esc \in Quotes /\ c # Escape /\ c # esc
                              THEN Append(tok, Escape) ELSE tok
                  IN  ReadTokens(s, i + 1, esc, esc, Append(kept, c), out)
             ELSE IF c \in Whitespace
                  THEN ReadTokens(s, i + 1, " ", esc, <<>>, Append(out, tok))
                  ELSE IF c \in Quotes THEN ReadTokens(s, i + 1, c, esc, tok, out)
                  ELSE IF c = Escape THEN ReadTokens(s, i + 1, Escape, "a", tok, out)
                  ELSE ReadTokens(s, i + 1, "a", esc, Append(tok, c), out)

\* shlex.split(s)
shlex_split(s) == ReadTokens(s, 1, " ", " ", <<>>, <<>>)

\* shlex.split(' '.join(test.executable_opts))
NormalizedOpts(opts) == shlex_split(JoinWithSpaces(opts))

\* ------------------------------------------------------------- inputs
Opt(S) == {None} \cup {Some(n) : n \in S}
\* processor.num_cpus: None when ReFrame could not detect the processor
CpuCounts == Opt({0, MaxCpus})
\* processor.num_sockets
SocketCounts == Opt({0, 2})
\* GPUs per node of the partition: none, one, or several
GpuCounts == {0, 1, MaxGpus}
\* node_part of a scale, also the values no scale should hold
NodeParts == Opt(-1 .. MaxNodePart)
\* default_num_cpus_per_node / default_num_gpus_per_node of a scale: unset, 0,
\* within a node of the largest partition, and above it
DefaultCpus == Opt({0, 3, MaxCpus + 1})
DefaultGpus == Opt({0, 2, MaxGpus + 1})
\* --setvar num_tasks_per_node / num_cpus_per_task / num_gpus_per_node
UserTasksPerNode == Opt({0, 1, 3})
UserCpusPerTask == Opt({0, MaxCpus + 1})
UserGpusPerNode == Opt({0, MaxGpus + 1})
\* num_tasks: ReFrame's default of 1, or set by the user
UserNumTasks == {Some(1), Some(7)}

Partitions ==
    [num_cpus : CpuCounts, num_sockets : SocketCounts,
     max_avail_gpus_per_node : GpuCounts]

Tests ==
    [max_avail_cpus_per_node : {None},
     node_part : NodeParts,
     default_num_cpus_per_node : DefaultCpus,
     default_num_gpus_per_node : DefaultGpus,
     num_nodes : {Some(n) : n \in 1 .. MaxNodes},
     num_tasks_per_node : UserTasksPerNode,
     num_cpus_per_task : UserCpusPerTask,
     num_gpus_per_node : UserGpusPerNode,
     num_tasks : UserNumTasks,
     exc : {"pending"}, line : {0}]

\* valid_systems: ReFrame's empty default, or set by the user
ValidSystemsLists == {<<>>, <<"*">>, <<"snellius:gpu", "vega:gpu">>}
\* --setvar modules=<comma-separated-list>
ModuleLists ==
    {<<>>} \cup {<<m>> : m \in ModuleNames}
           \cup {<<"GROMACS/2021.3-foss-2021a", "GROMACS/2021.3-foss-2021a-CUDA-11.3.1">>}
DeviceTypes == {DEVICES.CPU, DEVICES.GPU, DEVICES.CPU_SOCKET}

\* the characters of an option: a word character, a blank, the two quotes
OptChars == {"a", " ", "'", "\""}
SeqsUpTo(S, n) == UNION {[1 .. k -> S] : k \in 0 .. n}
OptStrings == SeqsUpTo(OptChars, MaxOptLen)
OptLists == SeqsUpTo(OptStrings, MaxOpts)


\* ------------------------------------------------------ specification
\* a test on which the device-type and modules hooks have not run
FilterIdle ==
    /\ valid_systems = <<>>
    /\ modules = <<>>
    /\ module_name = "GROMACS/2021.3-foss-2021a"
    /\ required_device_type = ""
\* a test on which the executable_opts hook has not run
OptsIdle ==
    /\ executable_opts = <<>>
    /\ has_custom_executable_opts = None
    /\ num_default = 0
    /\ opts_exc = ""
\* a test whose resources no hook has touched
ResourcesIdle ==
    /\ test = [max_avail_cpus_per_node |-> None, node_part |-> None,
               default_num_cpus_per_node |-> None,
               default_num_gpus_per_node |-> None,
               num_nodes |-> None, num_tasks_per_node |-> None,
               num_cpus_per_task |-> None, num_gpus_per_node |-> None,
               num_tasks |-> Some(1), exc |-> "pending", line |-> 0]
    /\ current_partition = [num_cpus |-> None, num_sockets |-> None,
                            max_avail_gpus_per_node |-> 0]
    /\ compute_unit = ""
    /\ user = test

Init ==
    /\ test \in Tests
    /\ current_partition \in Partitions
    /\ compute_unit = ""
    /\ user = test
    /\ FilterIdle
    /\ OptsIdle
    /\ last_hook = ""

assign_one_task_per_compute_unit ==
    /\ Pending(test)
    /\ \E cu \in ComputeUnits :
        /\ compute_unit' = cu
        /\ test' = AssignResult(test, current_partition, cu)
    /\ last_hook' = "assign_one_task_per_compute_unit"
    /\ UNCHANGED <<current_partition, user, filter_vars, opts_vars>>

Next == assign_one_task_per_compute_unit

Spec == Init /\ [][Next]_vars

\* the device-type and modules hooks, on any valid_systems, modules and module
InitFilter ==
    /\ ResourcesIdle
    /\ OptsIdle
    /\ valid_systems \in ValidSystemsLists
    /\ modules \in ModuleLists
    /\ module_name \in ModuleNames
    /\ required_device_type = ""
    /\ last_hook = ""

filter_valid_systems_by_device_type ==
    /\ \E device_type \in DeviceTypes :
        /\ required_device_type' = device_type
        /\ valid_systems' = FilteredSystems(valid_systems, module_name, device_type)
    /\ last_hook' = "filter_valid_systems_by_device_type"
    /\ UNCHANGED <<modules, module_name, resource_vars, opts_vars>>

set_modules ==
    /\ valid_systems' = IF modules # <<>> /\ ~IsIn(module_name, modules)
                        THEN <<>> ELSE valid_systems
    /\ modules' = <<module_name>>
    /\ last_hook' = "set_modules"
    /\ UNCHANGED <<module_name, required_device_type, resource_vars, opts_vars>>

NextFilter == filter_valid_systems_by_device_type \/ set_modules

SpecFilter == InitFilter /\ [][NextFilter]_vars

\* the executable_opts hook, on any list of options
InitOpts ==
    /\ ResourcesIdle
    /\ FilterIdle
    /\ executable_opts \in OptLists
    /\ has_custom_executable_opts = None
    /\ num_default \in 0 .. MaxNumDefault
    /\ opts_exc = ""
    /\ last_hook = ""

check_custom_executable_opts ==
    /\ LET split == NormalizedOpts(executable_opts)
       IN  IF split.ok
           THEN /\ executable_opts' = split.toks
                /\ has_custom_executable_opts' = Some(Len(split.toks) > num_default)
                /\ opts_exc' = "returned"
           ELSE /\ opts_exc' = "ValueError"
                /\ UNCHANGED <<executable_opts, has_custom_executable_opts>>
    /\ last_hook' = "check_custom_executable_opts"
    /\ UNCHANGED <<num_default, resource_vars, filter_vars>>

NextOpts == check_custom_executable_opts

SpecOpts == InitOpts /\ [][NextOpts]_vars

\* ------------------------------------------------ resolution outcomes
\* the hook ran and returned: the request is resolved
Returned == test.exc = "returned"
\* the hook ran (it returned or raised)
Finished == test.exc # "pending"
\* the hook raised SkipTestError: the test is skipped for this partition
Skipped == test.exc = "SkipTestError"
\* the fatal errors the hook raises by name: the missing processor
\* information, the undefined node_part and defaults, the unsupported unit
NamedFatal ==
    \/ test.exc = "AttributeError" /\ test.line = 33
    \/ test.exc = "ValueError" /\ test.line \in {40, 69}
RequestFields ==
    {"num_nodes", "num_tasks_per_node", "num_cpus_per_task",
     "num_gpus_per_node", "num_tasks"}
\* the user set the field before the hook ran (num_tasks is 1 by default)
PreSet(f) == user[f] # None /\ (f = "num_tasks" => user[f] # Some(1))
NonNegInt(x) == x # None /\ Val(x) >= 0

\* C1: whenever the hook returns, under every compute unit, partition and
\* user setting, num_tasks = num_nodes * num_tasks_per_node.
C1_NumTasksIsProduct ==
    Returned =>
        /\ test.num_nodes # None
        /\ test.num_tasks_per_node # None
        /\ test.num_tasks = Some(Val(test.num_nodes) * Val(test.num_tasks_per_node))
\* a GPU request on several nodes whose num_tasks the hook replaced
C1_Witness ==
    /\ Returned
    /\ compute_unit = DEVICES.GPU
    /\ Val(test.num_nodes) = 2
    /\ Val(test.num_tasks_per_node) = 3
    /\ user.num_tasks = Some(1)
    /\ test.num_tasks = Some(6)

\* C2 as claimed: when the hook returns, every field of the request the user
\* had set, num_tasks included, still holds the user's value.
C2_Original_NoPreSetFieldOverwritten ==
    Returned => \A f \in RequestFields : PreSet(f) => test[f] = user[f]
\* C2 as amended: when the hook returns, num_nodes, num_tasks_per_node,
\* num_cpus_per_task and num_gpus_per_node still hold the value the user set,
\* provided that value is not 0 (a 0 counts as unset); num_tasks is always
\* recomputed.
C2_NonZeroPreSetFieldsKept ==
    Returned =>
        \A f \in RequestFields \ {"num_tasks"} :
            Truthy(user[f]) => test[f] = user[f]
\* a GPU request with the three per-node fields set by the user
C2_Witness ==
    /\ Returned
    /\ compute_unit = DEVICES.GPU
    /\ Truthy(user.num_tasks_per_node)
    /\ Truthy(user.num_cpus_per_task)
    /\ Truthy(user.num_gpus_per_node)
    /\ test.num_tasks_per_node = user.num_tasks_per_node
    /\ test.num_cpus_per_task = user.num_cpus_per_task
    /\ test.num_gpus_per_node = user.num_gpus_per_node
    /\ test.num_tasks # user.num_tasks

\* C3 as claimed: when the hook returns, every field of the request is an
\* int >= 0, num_gpus_per_node under the cpu and cpu_socket units included.
C3_Claim_AllFieldsConcrete ==
    Returned => \A f \in RequestFields : NonNegInt(test[f])

\* C4 as claimed: every call ends with the request resolved, with the test
\* skipped, or with one of the named fatal errors.
C4_Claim_OnlyNamedOutcomes ==
    Finished => Returned \/ Skipped \/ NamedFatal

\* a default the user or the scale set exceeds what the partition offers
DefaultExceedsCapacity ==
    /\ current_partition.num_cpus # None
    /\ \/ /\ Truthy(user.default_num_cpus_per_node)
          /\ Val(user.default_num_cpus_per_node) > Val(current_partition.num_cpus)
       \/ /\ compute_unit = DEVICES.GPU
          /\ Truthy(user.default_num_gpus_per_node)
          /\ Val(user.default_num_gpus_per_node) >
                 get_max_avail_gpus_per_node(current_partition)
\* C5 as claimed: a default above the partition's capacity always ends in the
\* skip, whatever node_part, the other default and the compute unit are.
C5_Original_ExceedingDefaultSkips ==
    (Finished /\ DefaultExceedsCapacity) => Skipped
\* C5 as amended: a default above the partition's capacity ends in the skip
\* when the hook's precondition is met: node_part is a positive int, or both
\* defaults are set to non-zero ints.
C5_ExceedingDefaultSkipsWhenConfigured ==
    ( /\ Finished
      /\ DefaultExceedsCapacity
      /\ \/ IsInt(user.node_part) /\ Val(user.node_part) >= 1
         \/ Truthy(user.default_num_cpus_per_node)
            /\ Truthy(user.default_num_gpus_per_node) )
    => Skipped
\* a GPU request whose derived cpu default fits and whose gpu default does not
C5_Witness ==
    /\ Skipped
    /\ test.line = 173
    /\ user.default_num_cpus_per_node = None
    /\ user.node_part = Some(2)
    /\ Val(user.default_num_gpus_per_node) >
           get_max_avail_gpus_per_node(current_partition)

\* a GPU request on a partition with GPUs, resolved with node_part >= 1
GpuResolved ==
    /\ Returned
    /\ compute_unit = DEVICES.GPU
    /\ IsInt(user.node_part) /\ Val(user.node_part) >= 1
CpusPerGpu ==
    Val(current_partition.num_cpus) \div get_max_avail_gpus_per_node(current_partition)
\* C6 as claimed: under the gpu unit, with node_part >= 1 and any user
\* settings, num_cpus_per_task <= floor(num_cpus / max_avail_gpus_per_node).
C6_Original_CpusPerTaskCapped ==
    (GpuResolved /\ get_max_avail_gpus_per_node(current_partition) >= 1) =>
        Val(test.num_cpus_per_task) <= CpusPerGpu
\* C6 as amended: the cap holds when the user did not set num_cpus_per_task
\* (it is absent or 0); a value the user set is kept as it is.
C6_DerivedCpusPerTaskCapped ==
    (GpuResolved /\ ~Truthy(user.num_cpus_per_task)) =>
        /\ get_max_avail_gpus_per_node(current_partition) >= 1
        /\ test.num_cpus_per_task # None
        /\ Val(test.num_cpus_per_task) <= CpusPerGpu
\* half a node with one task: the default would give more cpus than one
\* GPU's share
C6_Witness ==
    /\ GpuResolved
    /\ user.node_part = Some(2)
    /\ user.num_cpus_per_task = None
    /\ user.default_num_cpus_per_node = None
    /\ Val(test.num_tasks_per_node) = 1
    /\ get_max_avail_gpus_per_node(current_partition) = MaxGpus
    /\ Val(test.default_num_cpus_per_node) > CpusPerGpu
    /\ Val(test.num_cpus_per_task) = CpusPerGpu

\* C7 as claimed: under the gpu unit, when the hook returns,
\* num_gpus_per_node <= max_avail_gpus_per_node, whatever the user set.
C7_Original_GpusWithinPartition ==
    (Returned /\ compute_unit = DEVICES.GPU) =>
        /\ test.num_gpus_per_node # None
        /\ Val(test.num_gpus_per_node) <= get_max_avail_gpus_per_node(current_partition)
\* C7 as amended: the limit holds when the user did not set num_gpus_per_node
\* (it is absent or 0); a value the user set is kept as it is.
C7_DerivedGpusWithinPartition ==
    (Returned /\ compute_unit = DEVICES.GPU /\ ~Truthy(user.num_gpus_per_node)) =>
        /\ test.num_gpus_per_node # None
        /\ Val(test.num_gpus_per_node) <= get_max_avail_gpus_per_node(current_partition)
\* the user asks for more tasks per node than the partition has GPUs
C7_Witness ==
    /\ Returned
    /\ compute_unit = DEVICES.GPU
    /\ user.num_gpus_per_node = None
    /\ Truthy(user.num_tasks_per_node)
    /\ Val(user.num_tasks_per_node) > get_max_avail_gpus_per_node(current_partition)
    /\ Val(test.num_gpus_per_node) = get_max_avail_gpus_per_node(current_partition)

\* C8 as claimed: with num_cpus known, the hook raises the ValueError of its
\* configuration check, before it changes the request, exactly when node_part
\* is not a positive int and the two defaults are not both ints.
C8_Claim_InvalidConfigurationRejected ==
    (Finished /\ current_partition.num_cpus # None) =>
        ( (test.exc = "ValueError" /\ test.line = 40
             /\ \A f \in RequestFields : test[f] = user[f])
          <=>
          ( /\ ~(IsInt(user.node_part) /\ Val(user.node_part) >= 1)
            /\ ~(IsInt(user.default_num_cpus_per_node)
                 /\ IsInt(user.default_num_gpus_per_node)) ) )

\* C9: the device-type filter, run for a GPU on a test whose valid_systems the
\* user left empty and whose module needs no CUDA, leaves valid_systems empty.
C9_GpuWithoutCudaLeavesNoSystems ==
    [][ ( /\ last_hook' = "filter_valid_systems_by_device_type"
          /\ required_device_type' = DEVICES.GPU
          /\ valid_systems = <<>>
          /\ ~is_cuda_required_module(module_name) )
        => valid_systems' = <<>> ]_vars
\* the filter has run for a GPU on a module without CUDA and no system is valid
C9_Witness ==
    /\ last_hook = "filter_valid_systems_by_device_type"
    /\ required_device_type = DEVICES.GPU
    /\ ~is_cuda_required_module(module_name)
    /\ valid_systems = <<>>

\* C10 as claimed: running check_custom_executable_opts on the options it
\* produced returns again, with the same executable_opts and the same
\* has_custom_executable_opts.
C10_Claim_NormalizationIdempotent ==
    [][ ( /\ last_hook = "check_custom_executable_opts"
          /\ opts_exc = "returned"
          /\ last_hook' = "check_custom_executable_opts" )
        => ( /\ opts_exc' = "returned"
             /\ executable_opts' = executable_opts
             /\ has_custom_executable_opts' = has_custom_executable_opts ) ]_vars

\* a GPU request resolved with num_tasks_per_node set by the user and
\* num_gpus_per_node left absent
OnlyTasksPerNodeSet ==
    /\ Returned
    /\ compute_unit = DEVICES.GPU
    /\ Truthy(user.num_tasks_per_node)
    /\ user.num_gpus_per_node = None
\* C11 as claimed: under the gpu unit, when the user set only
\* num_tasks_per_node, num_gpus_per_node becomes num_tasks_per_node, whatever
\* num_tasks_per_node and default_num_gpus_per_node are.
\* (stated for the node_part a scale may hold: unset, or an int >= 1)
C11_Original_GpusEqualTasks ==
    ( /\ OnlyTasksPerNodeSet
      /\ (user.node_part = None \/ Val(user.node_part) >= 1) )
    => test.num_gpus_per_node = test.num_tasks_per_node
\* C11 as amended: under the gpu unit, when the user set only
\* num_tasks_per_node, num_gpus_per_node becomes the smaller of
\* num_tasks_per_node and default_num_gpus_per_node, and num_tasks_per_node
\* keeps the user's value.
C11_GpusAreMinOfTasksAndDefault ==
    OnlyTasksPerNodeSet =>
        /\ test.num_tasks_per_node = user.num_tasks_per_node
        /\ test.default_num_gpus_per_node # None
        /\ test.num_gpus_per_node =
               Some(Min(Val(user.num_tasks_per_node),
                        Val(test.default_num_gpus_per_node)))
\* the user asks for more tasks per node than the default number of GPUs
C11_Witness ==
    /\ OnlyTasksPerNodeSet
    /\ Val(user.num_tasks_per_node) > Val(test.default_num_gpus_per_node)
    /\ Val(test.default_num_gpus_per_node) >= 1
    /\ test.num_gpus_per_node = test.default_num_gpus_per_node

====
